---- MODULE Spec2Model ----
(***************************************************************************)
(* Model of the expense tracker of src/main.py: one SQLite table          *)
(* `expenses`, the synchronous initializer init_db, the async tools       *)
(* add_expense, list_expenses and summarize, and the categories resource. *)
(*                                                                         *)
(* An async tool is modelled step by step: one action per stretch of code *)
(* between two awaits.  The store is modelled by what SQLite does for the *)
(* statements the code issues: AUTOINCREMENT row ids (sqlite_sequence), a *)
(* single write lock held from the INSERT to the COMMIT, readers that see *)
(* committed rows only, rollback when a connection closes uncommitted.    *)
(*                                                                         *)
(* Texts that are compared (dates) are sequences of character codes;      *)
(* amounts are integers, so floating point rounding is outside the model. *)
(***************************************************************************)
EXTENDS Integers, Sequences, FiniteSets

\* ------------------------------------------------------------------ bounds
\* upper bound on sqlite_sequence: inserts stop when it is reached
MaxSeq == 4
\* invocation slots that may be in progress at once
NProcs == 2

Procs == 1..NProcs
\* the days the clock shows
Days == {1, 2}

\* ------------------------------------------------------- Python values
\* An optional argument is the empty set (None) or a singleton.
None == {}
Some(v) == {v}
The(x) == CHOOSE v \in x : TRUE

\* str(date_class.today()): the ISO text of a day; every ISO text starts with
\* the same (year) character and ends with the day's.
IsoFormat(d) == <<1, d>>

EmptyText == <<>>
DateTexts == {EmptyText} \cup {IsoFormat(d) : d \in Days}
Amounts == {-1, 2}

\* Python truthiness of an optional text argument: None and '' are falsy.
TruthyDate(x) == x # None /\ The(x) # EmptyText
TruthyText(x) == x # None /\ The(x) # ""

\* ------------------------------------------------------- SQLite, pure part
\* memcmp order of two texts (BINARY collation): a < b
RECURSIVE LexLess(_, _)
LexLess(a, b) ==
    IF b = <<>> THEN FALSE
    ELSE IF a = <<>> THEN TRUE
    ELSE IF Head(a) # Head(b) THEN Head(a) < Head(b)
    ELSE LexLess(Tail(a), Tail(b))

LexLeq(a, b) == a = b \/ LexLess(a, b)

\* a faulty variant of ListBefore: equal dates are broken by id ascending
ListBeforeOldestFirst(r, s) ==
    \/ LexLess(s.date, r.date)
    \/ r.date = s.date /\ r.id < s.id

\* ORDER BY date DESC, id DESC: r comes before s
ListBefore(r, s) ==
    \/ LexLess(s.date, r.date)
    \/ r.date = s.date /\ r.id > s.id

RECURSIVE OrderRows(_)
OrderRows(S) ==
    IF S = {} THEN <<>>
    ELSE LET first == CHOOSE r \in S : \A s \in S \ {r} : ListBefore(r, s)
         IN  <<first>> \o OrderRows(S \ {first})

\* the WHERE clause list_expenses builds from its two optional bounds
ListWhere(r, start_date, end_date) ==
    IF TruthyDate(start_date) /\ TruthyDate(end_date)
    THEN LexLeq(The(start_date), r.date) /\ LexLeq(r.date, The(end_date))
    ELSE IF TruthyDate(start_date) THEN LexLeq(The(start_date), r.date)
    ELSE IF TruthyDate(end_date) THEN LexLeq(r.date, The(end_date))
    ELSE TRUE

ListQuery(table, start_date, end_date) ==
    OrderRows({r \in table : ListWhere(r, start_date, end_date)})

\* the WHERE clause summarize builds: 1=1, the date bounds, the category
SummarizeWhere(r, start_date, end_date, category) ==
    /\ ListWhere(r, start_date, end_date)
    /\ TruthyText(category) => r.category = The(category)

RECURSIVE SumAmount(_)
SumAmount(S) ==
    IF S = {} THEN 0
    ELSE LET r == CHOOSE x \in S : TRUE IN r.amount + SumAmount(S \ {r})

\* GROUP BY category with SUM(amount) and COUNT(*)
SummarizeGroups(table, start_date, end_date, category) ==
    LET sel == {r \in table : SummarizeWhere(r, start_date, end_date, category)}
    IN  { [category |-> c,
           total_amount |-> SumAmount({r \in sel : r.category = c}),
           count |-> Cardinality({r \in sel : r.category = c})]
          : c \in {r.category : r \in sel} }

\* a faulty variant of SummarizeOrders: ORDER BY total_amount ascending
SummarizeOrdersAscending(G) ==
    { s \in [1..Cardinality(G) -> G] :
        /\ \A i, j \in 1..Cardinality(G) : i # j => s[i] # s[j]
        /\ \A i, j \in 1..Cardinality(G) : i < j => s[i].total_amount <= s[j].total_amount }

\* ORDER BY total_amount DESC leaves the order of equal totals open: every
\* arrangement of the groups with non-increasing totals is a possible result.
SummarizeOrders(G) ==
    { s \in [1..Cardinality(G) -> G] :
        /\ \A i, j \in 1..Cardinality(G) : i # j => s[i] # s[j]
        /\ \A i, j \in 1..Cardinality(G) : i < j => s[i].total_amount >= s[j].total_amount }

\* a faulty variant of NextRowId: a plain INTEGER PRIMARY KEY, one more than the largest
\* row id in the table
NextRowIdOfTable(table, sequence) ==
    IF table = {} THEN 1
    ELSE (CHOOSE r \in table : \A s \in table : s.id <= r.id).id + 1

\* AUTOINCREMENT: one more than the largest row id ever used
NextRowId(table, sequence) == sequence + 1

\* a faulty variant of NewRow: note and subcategory bound in the wrong order
NewRowNoteFirst(id, a) ==
    [id |-> id,
     date |-> IF a.date = None THEN IsoFormat(a.today) ELSE The(a.date),
     amount |-> The(a.amount),
     category |-> The(a.category),
     subcategory |-> a.note,
     note |-> a.subcategory]

\* the row an INSERT with the five bound parameters creates
NewRow(id, a) ==
    [id |-> id,
     date |-> IF a.date = None THEN IsoFormat(a.today) ELSE The(a.date),
     amount |-> The(a.amount),
     category |-> The(a.category),
     subcategory |-> a.subcategory,
     note |-> a.note]

\* the NOT NULL columns date, amount, category
NotNullOk(a) == a.amount # None /\ a.category # None

\* the DELETE of init_db's probe
ProbeDelete(table) == {r \in table : r.category # "test"}

\* ------------------------------------------------------- failures
\* texts of the exceptions the store raises
EOpen == "unable to open database file"
EReadonly == "attempt to write a readonly database"
ELocked == "database is locked"
ENotNull == "NOT NULL constraint failed: expenses.category"
EIO == "disk I/O error"

\* "readonly" in str(e).lower()
ContainsReadonly(e) == e \in {EReadonly}

Message(text, detail) == [text |-> text, detail |-> detail]
NoMessage == Message("", "")

\* ------------------------------------------------------- results
\* What an invocation hands to its caller: a mapping (status, id, message),
\* a list (items) or a JSON text.
NoResult == [kind |-> "none", status |-> "", id |-> 0, message |-> NoMessage, items |-> <<>>]

AddSuccess(expense_id) ==
    [kind |-> "mapping", status |-> "success", id |-> expense_id,
     message |-> Message("Expense added successfully", ""), items |-> <<>>]

ErrorMapping(m) ==
    [kind |-> "mapping", status |-> "error", id |-> 0, message |-> m, items |-> <<>>]

ListResult(items) ==
    [kind |-> "list", status |-> "", id |-> 0, message |-> NoMessage, items |-> items]

TextResult(text, items) ==
    [kind |-> "text", status |-> "", id |-> 0, message |-> Message(text, ""), items |-> items]

\* the except clauses of the three tools
AddError(e) ==
    IF ContainsReadonly(e)
    THEN ErrorMapping(Message("Database is in read-only mode. Check file permissions.", ""))
    ELSE ErrorMapping(Message("Database error: ", e))

ListError(e) == ErrorMapping(Message("Error listing expenses: ", e))

SummarizeError(e) == ErrorMapping(Message("Error summarizing expenses: ", e))

\* an exception that reaches the caller
Raised(e) ==
    [kind |-> "raised", status |-> "", id |-> 0, message |-> [text |-> "", detail |-> e],
     items |-> <<>>]

\* a faulty variant of HandlerError: only the except clause of add_expense catches
HandlerOnlyAdd(op, e) == IF op = "add_expense" THEN AddError(e) ELSE Raised(e)

HandlerError(op, e) ==
    CASE op = "add_expense" -> AddError(e)
      [] op = "list_expenses" -> ListError(e)
      [] op = "summarize" -> SummarizeError(e)

\* the hardcoded fallback of the categories resource
DefaultCategories ==
    <<"Food & Dining", "Transportation", "Shopping", "Entertainment",
      "Bills & Utilities", "Healthcare", "Travel", "Education", "Business", "Other">>

\* categories(): the file verbatim, the default document when the file is
\* absent, an error document on any other failure
CategoriesResult(file) ==
    CASE file = "present" -> TextResult("file", <<>>)
      [] file = "absent" -> TextResult("categories", DefaultCategories)
      [] OTHER -> TextResult("error", <<>>)

\* ------------------------------------------------------- calls
Call(op, amount, category, subcategory, note, date, start_date, end_date, today) ==
    [op |-> op, amount |-> amount, category |-> category, subcategory |-> subcategory,
     note |-> note, date |-> date, start_date |-> start_date, end_date |-> end_date,
     today |-> today]

NoCall == Call("none", None, None, "", "", None, None, None, 0)

Opt(S) == {None} \cup {Some(v) : v \in S}

\* add_expense(amount, category, subcategory, note, date) for every amount
\* and category of `who`, every <<subcategory, note>> of `texts` and every
\* date of `dates`; `today` is what date_class.today() shows when the call
\* starts (read only when date is None)
AddCalls(who, texts, dates) ==
    { Call("add_expense", w[1], w[2], t[1], t[2], dt[1], None, None, dt[2]) :
        w \in who, t \in texts,
        dt \in {x \in dates \X (Days \cup {0}) : (x[1] = None) = (x[2] # 0)} }

ListCalls(dates) ==
    { Call("list_expenses", None, None, "", "", None, s, e, 0) : s \in dates, e \in dates }

SummarizeCalls(dates, cats) ==
    { Call("summarize", None, c, "", "", None, s, e, 0) :
        s \in dates, e \in dates, c \in cats }

\* ------------------------------------------------------- state
VARIABLES
    rows,      \* the committed rows of table expenses
    seq,       \* the committed sqlite_sequence entry of expenses
    writer,    \* the invocation whose connection holds the write lock, or 0
    pc,        \* where each invocation stands
    args,      \* the arguments of each invocation
    conn,      \* whether the connection of each invocation is open
    txn,       \* the uncommitted row of each invocation's connection
    cursor,    \* the rows each invocation's SELECT has produced
    ret,       \* what each invocation returns to its caller
    created    \* history: the rows of the adds that returned success, in order

vars == <<rows, seq, writer, pc, args, conn, txn, cursor, ret, created>>

\* The module is loaded on a fresh store file: init_db has created the table
\* and its probe has used row id 1.
Init ==
    /\ rows = {}
    /\ seq = 1
    /\ writer = 0
    /\ pc = [p \in Procs |-> "idle"]
    /\ args = [p \in Procs |-> NoCall]
    /\ conn = [p \in Procs |-> FALSE]
    /\ txn = [p \in Procs |-> {}]
    /\ cursor = [p \in Procs |-> <<>>]
    /\ ret = [p \in Procs |-> NoResult]
    /\ created = <<>>

Idle == \A p \in Procs : pc[p] = "idle"

\* ------------------------------------------------------- init_db
\* A later load of the module (a restart) on the existing file: CREATE TABLE
\* IF NOT EXISTS changes nothing, the probe INSERT takes the next row id, the
\* DELETE removes every row of category 'test', and the with block commits.
\* When the store cannot be written init_db raises and nothing changes.
InitDb ==
    /\ Idle
    /\ writer = 0
    /\ seq < MaxSeq
    /\ seq' = NextRowId(rows, seq)
    /\ rows' = ProbeDelete(rows)
    /\ UNCHANGED <<writer, pc, args, conn, txn, cursor, ret, created>>

\* ------------------------------------------------------- the tools
\* a tool is called with arguments a
Invoke(p, a) ==
    /\ pc[p] = "idle"
    /\ pc' = [pc EXCEPT ![p] = "connect"]
    /\ args' = [args EXCEPT ![p] = a]
    /\ UNCHANGED <<rows, seq, writer, conn, txn, cursor, ret, created>>

\* async with aiosqlite.connect(DB_PATH) as c
Connect(p) ==
    /\ pc[p] = "connect"
    /\ conn' = [conn EXCEPT ![p] = TRUE]
    /\ pc' = [pc EXCEPT ![p] = "execute"]
    /\ UNCHANGED <<rows, seq, writer, args, txn, cursor, ret, created>>

\* a faulty variant of AsyncWithExit: the connection is left as it is
AsyncWithLeak(c) == c

\* the exit of the async with closes the connection, whatever state c it is in
AsyncWithExit(c) == FALSE

\* a faulty variant of WriteLockFree: inserts of different connections are not serialized
WriteLockIgnored(p) == TRUE

\* the write lock is free for invocation p
WriteLockFree(p) == writer = 0

\* await c.execute(INSERT ...): takes the write lock and inserts the row in
\* the connection's transaction; cur.lastrowid is the row's id
AddExecute(p) ==
    /\ pc[p] = "execute"
    /\ args[p].op = "add_expense"
    /\ WriteLockFree(p)
    /\ NotNullOk(args[p])
    /\ seq < MaxSeq
    /\ writer' = p
    /\ txn' = [txn EXCEPT ![p] = {NewRow(NextRowId(rows, seq), args[p])}]
    /\ pc' = [pc EXCEPT ![p] = "commit"]
    /\ UNCHANGED <<rows, seq, args, conn, cursor, ret, created>>

\* what the COMMIT of a connection's transaction leaves in the table
Committed(table, pending) == table \cup pending

\* await c.commit(), return of the success mapping, exit of the async with
AddCommit(p) ==
    /\ pc[p] = "commit"
    /\ rows' = Committed(rows, txn[p])
    /\ seq' = The(txn[p]).id
    /\ writer' = 0
    /\ txn' = [txn EXCEPT ![p] = {}]
    /\ conn' = [conn EXCEPT ![p] = AsyncWithExit(conn[p])]
    /\ ret' = [ret EXCEPT ![p] = AddSuccess(The(txn[p]).id)]
    /\ created' = Append(created, The(txn[p]))
    /\ pc' = [pc EXCEPT ![p] = "done"]
    /\ UNCHANGED <<args, cursor>>

\* the rows a SELECT of invocation p sees: the committed ones
Visible(p) == rows

\* await c.execute(SELECT ...) of list_expenses
ListExecute(p) ==
    /\ pc[p] = "execute"
    /\ args[p].op = "list_expenses"
    /\ cursor' = [cursor EXCEPT ![p] =
                    ListQuery(Visible(p), args[p].start_date, args[p].end_date)]
    /\ pc' = [pc EXCEPT ![p] = "fetch"]
    /\ UNCHANGED <<rows, seq, writer, args, conn, txn, ret, created>>

\* await c.execute(SELECT ...) of summarize
SummarizeExecute(p) ==
    /\ pc[p] = "execute"
    /\ args[p].op = "summarize"
    /\ \E s \in SummarizeOrders(SummarizeGroups(Visible(p), args[p].start_date,
                                                args[p].end_date, args[p].category)) :
          cursor' = [cursor EXCEPT ![p] = s]
    /\ pc' = [pc EXCEPT ![p] = "fetch"]
    /\ UNCHANGED <<rows, seq, writer, args, conn, txn, ret, created>>

\* await cur.fetchall(), return of the list of mappings, exit of the async with
Fetch(p) ==
    /\ pc[p] = "fetch"
    /\ ret' = [ret EXCEPT ![p] = ListResult(cursor[p])]
    /\ cursor' = [cursor EXCEPT ![p] = <<>>]
    /\ conn' = [conn EXCEPT ![p] = AsyncWithExit(conn[p])]
    /\ pc' = [pc EXCEPT ![p] = "done"]
    /\ UNCHANGED <<rows, seq, writer, args, txn, created>>

\* an uncommitted transaction is rolled back when its connection closes
RolledBack(table, pending) == table

\* the exceptions the await invocation p stands at can raise
ErrorsAt(p) ==
    CASE pc[p] = "connect" -> {EOpen}
      [] pc[p] = "execute" /\ args[p].op = "add_expense" ->
            {EReadonly}
            \cup (IF writer # 0 THEN {ELocked} ELSE {})
            \cup (IF NotNullOk(args[p]) THEN {} ELSE {ENotNull})
      [] pc[p] \in {"execute", "commit", "fetch"} -> {EIO}
      [] OTHER -> {}


\* An await raises: the async with closes the connection, which rolls the
\* uncommitted row back and frees the write lock; the except clause turns
\* the exception into an error mapping.
Fail(p, e) ==
    /\ e \in ErrorsAt(p)
    /\ ret' = [ret EXCEPT ![p] = HandlerError(args[p].op, e)]
    /\ conn' = [conn EXCEPT ![p] = AsyncWithExit(conn[p])]
    /\ txn' = [txn EXCEPT ![p] = {}]
    /\ writer' = IF writer = p THEN 0 ELSE writer
    /\ cursor' = [cursor EXCEPT ![p] = <<>>]
    /\ pc' = [pc EXCEPT ![p] = "done"]
    /\ rows' = RolledBack(rows, txn[p])
    /\ UNCHANGED <<seq, args, created>>

\* the categories resource: synchronous, reads the categories file
CategoriesRead(p, file) ==
    /\ pc[p] = "idle"
    /\ args' = [args EXCEPT ![p] = Call("categories", None, None, "", "", None, None, None, 0)]
    /\ ret' = [ret EXCEPT ![p] = CategoriesResult(file)]
    /\ pc' = [pc EXCEPT ![p] = "done"]
    /\ UNCHANGED <<rows, seq, writer, conn, txn, cursor, created>>

\* the caller has the result
Return(p) ==
    /\ pc[p] = "done"
    /\ pc' = [pc EXCEPT ![p] = "idle"]
    /\ args' = [args EXCEPT ![p] = NoCall]
    /\ ret' = [ret EXCEPT ![p] = NoResult]
    /\ UNCHANGED <<rows, seq, writer, conn, txn, cursor, created>>

Errors == {EOpen, EReadonly, ELocked, ENotNull, EIO}

Files == {"present", "absent", "unreadable"}

OptDates == Opt(DateTexts)

\* ------------------------------------------------------- the service, one
\* request at a time, with restarts
\* add_expense arguments: each <<amount, category>> with each
\* <<subcategory, note>> and date; a None category violates NOT NULL
ServiceCalls ==
    AddCalls({<<Some(2), Some("food")>>, <<Some(-1), Some("test")>>, <<Some(2), None>>},
             {<<"", "">>}, {None})
    \cup AddCalls({<<Some(2), Some("food")>>, <<Some(-1), Some("test")>>},
                  {<<"s", "n">>}, {Some(EmptyText)})
    \cup ListCalls({None})
    \cup SummarizeCalls({None}, {None})

Next ==
    \/ InitDb
    \/ \E a \in ServiceCalls : Idle /\ Invoke(1, a)
    \/ \E f \in Files : Idle /\ CategoriesRead(1, f)
    \/ Connect(1)
    \/ AddExecute(1)
    \/ AddCommit(1)
    \/ ListExecute(1)
    \/ SummarizeExecute(1)
    \/ Fetch(1)
    \/ \E e \in Errors : Fail(1, e)
    \/ Return(1)

Spec == Init /\ [][Next]_vars

\* ------------------------------------------------------- queries over every
\* store the adds can build, one request at a time
QueryCategories == {"", "food"}

QueryCalls ==
    AddCalls({<<Some(2), Some("")>>, <<Some(2), Some("food")>>, <<Some(-1), Some("food")>>},
             {<<"", "">>}, {Some(d) : d \in DateTexts})
    \cup ListCalls(OptDates)
    \cup SummarizeCalls({None, Some(IsoFormat(1))}, Opt(QueryCategories))
    \cup SummarizeCalls({Some(EmptyText)}, {None})

NextQuery ==
    \/ \E a \in QueryCalls : Idle /\ Invoke(1, a)
    \/ Connect(1)
    \/ AddExecute(1)
    \/ AddCommit(1)
    \/ ListExecute(1)
    \/ SummarizeExecute(1)
    \/ Fetch(1)
    \/ \E e \in Errors : Fail(1, e)
    \/ Return(1)

SpecQuery == Init /\ [][NextQuery]_vars

\* ------------------------------------------------------- concurrent requests
AsyncCalls ==
    AddCalls({<<Some(2), Some("food")>>, <<Some(2), None>>}, {<<"", "">>}, {Some(EmptyText)})
    \cup ListCalls({None})
    \cup SummarizeCalls({None}, {None})

NextAsync ==
    \E p \in Procs :
        \/ \E a \in AsyncCalls : Invoke(p, a)
        \/ Connect(p)
        \/ AddExecute(p)
        \/ AddCommit(p)
        \/ ListExecute(p)
        \/ SummarizeExecute(p)
        \/ Fetch(p)
        \/ \E e \in Errors : Fail(p, e)
        \/ Return(p)

SpecAsync == Init /\ [][NextAsync]_vars

\* ------------------------------------------------------- properties
Range(f) == {f[i] : i \in DOMAIN f}

Done(p, op) == pc[p] = "done" /\ args[p].op = op

\* C1: once add_expense has returned success for a record, the record stays
\* in the store unchanged in every later state, whatever its category is and
\* whatever is invoked afterwards, init_db included.
C1_CreatedRowsStay == \A i \in DOMAIN created : created[i] \in rows

\* C2: list_expenses(start_date=D) returns exactly the rows with date >= D,
\* list_expenses(end_date=D) exactly those with date <= D, and with both
\* bounds exactly those in between, for every bound a caller supplies (the
\* empty text included), dates compared as text.
C2_SuppliedBound(r, start_date, end_date) ==
    /\ start_date # None => LexLeq(The(start_date), r.date)
    /\ end_date # None => LexLeq(r.date, The(end_date))

C2_ListBounds ==
    \A p \in Procs :
        (/\ Done(p, "list_expenses")
         /\ ret[p].kind = "list"
         /\ (args[p].start_date # None \/ args[p].end_date # None))
        => /\ Range(ret[p].items)
                = {r \in rows : C2_SuppliedBound(r, args[p].start_date, args[p].end_date)}
           /\ Len(ret[p].items) = Cardinality(Range(ret[p].items))

\* C3: after any sequence of successful adds, list_expenses() without bounds
\* returns exactly the rows those adds created, each once, ordered by date
\* descending and, among equal dates, by id descending.
C3_ListAll ==
    \A p \in Procs :
        (/\ Done(p, "list_expenses")
         /\ ret[p].kind = "list"
         /\ args[p].start_date = None /\ args[p].end_date = None)
        => LET items == ret[p].items
           IN  /\ Range(items) = Range(created)
               /\ Len(items) = Len(created)
               /\ \A i, j \in DOMAIN items :
                    i < j => \/ LexLess(items[j].date, items[i].date)
                             \/ items[i].date = items[j].date /\ items[i].id > items[j].id

C3_Witness ==
    \E p \in Procs :
        /\ Done(p, "list_expenses")
        /\ args[p].start_date = None /\ args[p].end_date = None
        /\ Len(ret[p].items) = 3
        /\ ret[p].items[1].date = ret[p].items[2].date
        /\ ret[p].items[2].date # ret[p].items[3].date
        /\ ret[p].items[3].id > ret[p].items[1].id

\* C4: summarize(category=C), with or without date bounds, returns at most
\* one row, and only a row for category C, for every category value C supplied.
C4_SummarizeCategory ==
    \A p \in Procs :
        (/\ Done(p, "summarize")
         /\ ret[p].kind = "list"
         /\ args[p].category # None)
        => /\ Len(ret[p].items) <= 1
           /\ \A i \in DOMAIN ret[p].items : ret[p].items[i].category = The(args[p].category)

\* the sum of the amounts of the rows of category c, taken id by id
RECURSIVE C5_TotalUpTo(_, _)
C5_TotalUpTo(n, c) ==
    IF n = 0 THEN 0
    ELSE C5_TotalUpTo(n - 1, c)
         + (IF \E r \in rows : r.id = n /\ r.category = c
            THEN (CHOOSE r \in rows : r.id = n /\ r.category = c).amount
            ELSE 0)

\* C5: summarize() without filters returns exactly one row per category
\* present in the store, with the sum of the category's amounts and the number
\* of its rows, in non-increasing order of total_amount.
C5_SummarizeAll ==
    \A p \in Procs :
        (/\ Done(p, "summarize")
         /\ ret[p].kind = "list"
         /\ args[p].start_date = None /\ args[p].end_date = None /\ args[p].category = None)
        => LET items == ret[p].items
           IN  /\ {items[i].category : i \in DOMAIN items} = {r.category : r \in rows}
               /\ \A i, j \in DOMAIN items : items[i].category = items[j].category => i = j
               /\ \A i \in DOMAIN items :
                    /\ items[i].total_amount = C5_TotalUpTo(seq, items[i].category)
                    /\ items[i].count
                         = Cardinality({r \in rows : r.category = items[i].category})
               /\ \A i, j \in DOMAIN items :
                    i < j => items[i].total_amount >= items[j].total_amount

C5_Witness ==
    \E p \in Procs :
        /\ Done(p, "summarize")
        /\ args[p].start_date = None /\ args[p].end_date = None /\ args[p].category = None
        /\ Len(ret[p].items) = 2
        /\ ret[p].items[1].count = 1
        /\ ret[p].items[2].count = 2
        /\ ret[p].items[1].total_amount > ret[p].items[2].total_amount

\* C6: an add_expense call that returns success appends exactly one row and
\* changes no other row; the row has the arguments' amount, category,
\* subcategory and note, the date argument unmodified when one is supplied and
\* the current calendar date otherwise, and the returned id is the row's id.
C6_AddFrame ==
    [][\A p \in Procs :
         /\ (/\ args[p].op = "add_expense"
             /\ pc[p] # "done" /\ pc'[p] = "done"
             /\ ret'[p].status = "success")
            => \E r \in rows' :
                 /\ r \notin rows
                 /\ rows' = rows \cup {r}
                 /\ r.id = ret'[p].id
                 /\ \A q \in rows : q.id # r.id
                 /\ r.amount = The(args[p].amount)
                 /\ r.category = The(args[p].category)
                 /\ r.subcategory = args[p].subcategory
                 /\ r.note = args[p].note
                 /\ r.date = (IF args[p].date # None THEN The(args[p].date)
                              ELSE IsoFormat(args[p].today))
         /\ (/\ args[p].op = "add_expense"
             /\ pc[p] \notin {"idle", "done"} /\ pc'[p] # "done")
            => rows' = rows
      ]_vars

C6_Witness ==
    \E p \in Procs :
        /\ Done(p, "add_expense")
        /\ ret[p].status = "success"
        /\ args[p].date = None /\ args[p].today = 2
        /\ \E r \in rows : r.id = ret[p].id /\ r.date = IsoFormat(2)
        /\ \E r \in rows : r.id # ret[p].id /\ r.subcategory = "s" /\ r.date = EmptyText

\* C7: no two stored rows share an id, and every id add_expense assigns is
\* greater than every id an earlier add_expense assigned, across adds and
\* init_db invocations (whose probe inserts and deletes a row).
C7_IdsUniqueIncreasing ==
    /\ \A r, s \in rows : r.id = s.id => r = s
    /\ \A i, j \in DOMAIN created : i < j => created[i].id < created[j].id

C7_Witness ==
    \E i, j \in DOMAIN created :
        /\ j = i + 1
        /\ created[j].id > created[i].id + 1
        /\ created[i] \notin rows
        /\ created[j] \in rows

\* C8: no invocation raises to its caller: a failing store write or query
\* ends in a mapping with status "error" and a message, categories ends in a
\* default or error document, and a failed add_expense leaves the stored rows
\* as they were before the call.
C8_FailuresAreData ==
    [][\A p \in Procs :
         /\ (pc[p] # "done" /\ pc'[p] = "done")
            => ret'[p].kind \in {"mapping", "list", "text"}
         /\ \A e \in Errors :
              Fail(p, e) => /\ ret'[p].kind = "mapping"
                            /\ ret'[p].status = "error"
                            /\ ret'[p].message.text # ""
         /\ (/\ args[p].op = "add_expense"
             /\ pc[p] \notin {"idle", "done"}
             /\ ret'[p].status # "success")
            => rows' = rows
         /\ \A f \in Files :
              CategoriesRead(p, f)
              => /\ ret'[p].kind = "text"
                 /\ f = "absent" => ret'[p].items = DefaultCategories
                 /\ f = "unreadable" => ret'[p].message.text = "error"
      ]_vars

C8_Witness ==
    \E p \in Procs :
        /\ Done(p, "add_expense")
        /\ ret[p].status = "error"
        /\ ret[p].message.detail = EIO
        /\ rows # {}
        /\ writer = 0

\* C9: every add_expense, list_expenses and summarize invocation has its own
\* connection open while it uses the store and closed when it returns, on the
\* success path and on every failure path; when no invocation is in progress
\* no connection is open.
C9_ConnectionsClosed ==
    \A p \in Procs :
        /\ pc[p] \in {"idle", "done"} => ~conn[p]
        /\ pc[p] \in {"execute", "commit", "fetch"} => conn[p]

C9_Witness ==
    \E p, q \in Procs :
        /\ p # q
        /\ pc[p] = "done"
        /\ ret[p].status = "error"
        /\ ret[p].message.detail = EIO
        /\ ~conn[p]
        /\ conn[q]

\* C10: under every interleaving of concurrent add_expense and list_expenses
\* invocations the successful adds have pairwise distinct ids, the store holds
\* exactly one row per successful add and none of a failed add, and a list
\* result holds only committed rows, each at most once.
C10_ConcurrentAdds ==
    /\ \A i, j \in DOMAIN created : i # j => created[i].id # created[j].id
    /\ rows = Range(created)
    /\ Cardinality(rows) = Len(created)
    /\ \A p \in Procs :
         (Done(p, "list_expenses") /\ ret[p].kind = "list")
         => /\ Range(ret[p].items) \subseteq rows
            /\ Len(ret[p].items) = Cardinality(Range(ret[p].items))

C10_Witness ==
    \E p, q \in Procs :
        /\ p # q
        /\ Done(p, "add_expense")
        /\ ret[p].message.detail = ELocked
        /\ pc[q] = "commit"
        /\ Len(created) >= 1

====
